---- MODULE Spec2Model ----
(***************************************************************************)
(* Model of dagster_test/toys/freshness_checks.py: the unreliable source   *)
(* observation, the derived asset that fails on a stale source, and the    *)
(* two every-3-minutes schedules that launch them.                         *)
(*                                                                         *)
(* Times are wall-clock seconds since midnight; pendulum.now().timestamp() *)
(* of a wall-clock value is that value (fixed UTC offset).                 *)
(***************************************************************************)
EXTENDS Integers, Sequences, FiniteSets, TLC

\* ---- bounds of the model ----
\* minutes of wall-clock time explored after the scheduler starts
MaxElapsed == 6
\* number of distinct second-of-minute values the clock can show
NumSecs == 2

\* ---- program constants ----
\* limit=1 of both fetch_observations calls
FetchLimit == 1
\* pendulum.now().subtract(minutes=3)
StaleMinutes == 3
\* cron_schedule="*/3 * * * *" of both schedules
CronStep == 3
\* the divisor and factor 3 of rounded_minute
RoundStep == 3

VARIABLES
    now,             \* the wall clock, pendulum.now()
    start,           \* the time at which the scheduler was started
    lastTick,        \* the last cron tick the schedules fired for
    obsPending,      \* ticks whose observe_raw_events run has not executed yet
    derivedPending,  \* ticks whose derived_asset_job run has not executed yet
    store,           \* observation records of unreliable_source_events, oldest first
    obs_call,        \* the coin, branch and result of the last simulator call
    derived_run      \* the outcome of the last run of derived_asset

vars == <<now, start, lastTick, obsPending, derivedPending, store,
          obs_call, derived_run>>

\* ---- wall-clock fields ----
DaySeconds == 24 * 60 * 60

SecondOf(t) == t % 60

MinuteOf(t) == (t \div 60) % 60

\* the second-of-minute values of the clock
Seconds == { (k * 60) \div NumSecs : k \in 0 .. (NumSecs - 1) }

\* math.floor(n / 3) of a possibly negative integer n
floor_div(n, d) == IF n >= 0 THEN n \div d ELSE 0 - ((0 - n + (d - 1)) \div d)

\* now.replace(minute=m): the minute field must be in 0..59, else ValueError
replace_minute(t, m) ==
    IF m \in 0 .. 59
    THEN [kind |-> "ts", value |-> t - MinuteOf(t) * 60 + m * 60]
    ELSE [kind |-> "ValueError", value |-> 0]

\* rounded_minute with the subtraction of one minute left out
rounded_minute_nosub(t) == floor_div(MinuteOf(t), RoundStep) * RoundStep

\* rounded_minute with the remainder taken in place of the floor division
rounded_minute_mod(t) == ((MinuteOf(t) - 1) % RoundStep) * RoundStep

\* rounded_minute = math.floor((now.minute - 1) / 3) * 3
rounded_minute(t) == floor_div(MinuteOf(t) - 1, RoundStep) * RoundStep

\* MetadataValue.timestamp(now.replace(minute=rounded_minute))
synthetic_timestamp(t) == replace_minute(t, rounded_minute(t))

\* instance.fetch_observations(records_filter=key, limit=n): at most n
\* records, most recent first
fetch_observations(records, limit) ==
    LET n == IF Len(records) < limit THEN Len(records) ELSE limit
    IN  [i \in 1 .. n |-> records[Len(records) - i + 1]]

\* the branch condition with >= 1 in place of > 1
TakesStaleBranch_ge1(coin, records) == coin /\ Len(records) >= 1

\* random.random() < 0.5 and len(latest_observations.records) > 1
TakesStaleBranch(coin, records) == coin /\ Len(records) > 1

\* get_last_updated_timestamp_unreliable_source(): the branch and the result
get_last_updated_timestamp_unreliable_source(coin, records, t) ==
    IF TakesStaleBranch(coin, records)
    THEN [branch |-> "stale", result |-> [kind |-> "ts", value |-> records[1].ts]]
    ELSE [branch |-> "fresh", result |-> synthetic_timestamp(t)]

\* the staleness test with <= in place of <
IsStale_le(ts, t) == ts <= t - StaleMinutes * 60

\* latest_updated_timestamp < pendulum.now().subtract(minutes=3).timestamp()
IsStale(ts, t) == ts < t - StaleMinutes * 60

\* derived_asset(context): the outcome of the body. records[0] is indexed
\* first; every record of the store carries an observation with a float
\* timestamp, so check.not_none and check.float_param pass it through
derived_asset(records, t) ==
    IF Len(records) = 0
    THEN "IndexError"
    ELSE IF IsStale(records[1].ts, t) THEN "stale" ELSE "ok"

\* ---- the schedules ----
\* cron "*/3 * * * *": every minute divisible by 3, at second 0
IsCronTick(t) == MinuteOf(t) % CronStep = 0 /\ SecondOf(t) = 0

\* the scheduler starts at any full minute of the first hour, with an empty
\* observation store and no run launched yet
Init ==
    /\ now \in { m * 60 : m \in 0 .. 59 }
    /\ start = now
    /\ lastTick = now - 1
    /\ obsPending = {}
    /\ derivedPending = {}
    /\ store = <<>>
    /\ obs_call = [coin |-> FALSE, branch |-> "none",
                   result |-> [kind |-> "none", value |-> 0]]
    /\ derived_run = "none"

\* the wall clock moves to a later instant, at most one minute ahead
AdvanceClock ==
    /\ \E t \in (now + 1) .. (now + 60) :
          /\ t <= start + MaxElapsed * 60
          /\ t < DaySeconds
          /\ SecondOf(t) \in Seconds
          /\ now' = t
    /\ UNCHANGED <<start, lastTick, obsPending, derivedPending, store,
                   obs_call, derived_run>>

\* raw_events_schedule and derived_asset_schedule fire for the next cron tick
ScheduleTick ==
    /\ \E t \in (lastTick + 1) .. now :
          /\ IsCronTick(t)
          /\ \A u \in (lastTick + 1) .. (t - 1) : ~IsCronTick(u)
          /\ lastTick' = t
          /\ obsPending' = obsPending \cup {t}
          /\ derivedPending' = derivedPending \cup {t}
    /\ UNCHANGED <<now, start, store, obs_call, derived_run>>

\* a run of observe_raw_events: unreliable_source_events() is evaluated and,
\* unless it raised, its ObserveResult is recorded in the observation store
Observe ==
    \E t \in obsPending, coin \in BOOLEAN :
        LET latest_observations == fetch_observations(store, FetchLimit)
            r == get_last_updated_timestamp_unreliable_source(
                     coin, latest_observations, now)
        IN  /\ obsPending' = obsPending \ {t}
            /\ obs_call' = [coin |-> coin, branch |-> r.branch, result |-> r.result]
            /\ store' = IF r.result.kind = "ts"
                        THEN Append(store, [ts |-> r.result.value, at |-> now,
                                            branch |-> r.branch, tick |-> t])
                        ELSE store
            /\ UNCHANGED <<now, start, lastTick, derivedPending, derived_run>>

\* a run of derived_asset_job
RunDerived ==
    \E t \in derivedPending :
        LET latest_observations == fetch_observations(store, FetchLimit)
        IN  /\ derivedPending' = derivedPending \ {t}
            /\ derived_run' = derived_asset(latest_observations, now)
            /\ UNCHANGED <<now, start, lastTick, obsPending, store, obs_call>>

Next ==
    \/ AdvanceClock
    \/ ScheduleTick
    \/ Observe
    \/ RunDerived

Spec == Init /\ [][Next]_vars

\* ---- helpers of the properties ----
\* the observation run of tick t has executed
ObsExecuted(t) == t >= start /\ t <= lastTick /\ IsCronTick(t) /\ t \notin obsPending

\* the observation run of tick t has recorded a non-stale observation
ObsFresh(t) == \E i \in 1 .. Len(store) : store[i].tick = t /\ store[i].branch = "fresh"

\* every cron tick up to the current time has been fired by the schedules
AllTicksFired == \A u \in (lastTick + 1) .. now : ~IsCronTick(u)

\* two call times lie in the same window, minutes 3k+1 .. 3k+3 of the same hour
SameWindow(a, b) ==
    /\ a \div 3600 = b \div 3600
    /\ MinuteOf(a) >= 1
    /\ MinuteOf(b) >= 1
    /\ (MinuteOf(a) - 1) \div 3 = (MinuteOf(b) - 1) \div 3

\* the records of the store written by the non-stale branch
FreshRecords == { i \in 1 .. Len(store) : store[i].branch = "fresh" }

\* ---- C1 ----
\* C1: the simulator has no error outcome: whatever the current time and the
\* content of the store, the call returns a timestamp and never raises (the
\* minute handed to now.replace is within 0..59).
C1_NeverRaises == obs_call.result.kind \in {"none", "ts"}

\* ---- C2 ----
\* C2: with more than one prior observation in the store, the stale outcome
\* is possible: when the coin falls below 0.5 the call returns the most
\* recent recorded timestamp unchanged.
C2_StaleBranchReachable ==
    [][(Observe /\ Len(store) > 1 /\ obs_call'.coin)
         => /\ obs_call'.branch = "stale"
            /\ obs_call'.result = [kind |-> "ts", value |-> store[Len(store)].ts]]_vars

\* ---- C3 ----
\* C3: on the non-stale branch the result is the reference computation: the
\* minute of (current time minus one minute), floor-divided by 3, times 3,
\* put in the minute field of the current time, all other fields unchanged.
C3_MatchesReference ==
    [][(Observe /\ obs_call'.branch = "fresh")
         => LET before == (now - 60 + DaySeconds) % DaySeconds
                ref == (MinuteOf(before) \div 3) * 3
            IN  obs_call'.result =
                  [kind |-> "ts", value |-> now - MinuteOf(now) * 60 + ref * 60]]_vars

\* ---- C4 ----
\* C4: derived_asset raises "source is stale" exactly when the timestamp of
\* the latest source observation is strictly older than the current time
\* minus 3 minutes; otherwise, with a latest observation present, it returns 1.
C4_StaleIffOlderThan3Min ==
    [][(RunDerived /\ Len(store) > 0)
         => LET latest == store[Len(store)].ts
            IN  /\ (derived_run' = "stale") <=> (latest + 180 < now)
                /\ (derived_run' # "stale") => (derived_run' = "ok")]_vars

\* a run of derived_asset has raised on a stale source
C4_Witness ==
    /\ derived_run = "stale"
    /\ Len(store) > 0
    /\ store[Len(store)].ts + 180 < now

\* ---- C5 ----
\* C5: every failure of derived_asset other than "source is stale" is a
\* framework check error, never a raw language error such as IndexError
\* on records[0] when the store holds no record.
C5_OnlyFrameworkErrors == derived_run \in {"none", "ok", "stale", "CheckError"}

\* ---- C6 ----
\* C6: when the schedules have fired every tick, the observation of a tick
\* took the non-stale branch and was recorded, and the derived_asset run of
\* that tick executes after it and before the next tick, that run returns 1.
C6_DerivedUpdatedEveryTick ==
    [][\A t \in derivedPending :
         ( /\ derivedPending' = derivedPending \ {t}
           /\ derived_run' = derived_asset(fetch_observations(store, FetchLimit), now)
           /\ AllTicksFired
           /\ ObsExecuted(t)
           /\ ObsFresh(t)
           /\ now < t + CronStep * 60 )
         => derived_run' = "ok"]_vars

C8_SameWindowSameTimestamp ==
    /\ \A i \in FreshRecords : MinuteOf(store[i].ts) % 3 = 0
    /\ \A i, j \in FreshRecords :
          SameWindow(store[i].at, store[j].at) => store[i].ts = store[j].ts

\* C8 amended: the minute of every non-stale timestamp is a multiple of 3,
\* and two non-stale calls in the same 3-minute window return timestamps with
\* the same hour and minute; the seconds of each are those of its own call.
C8_SameWindowSameMinute ==
    /\ \A i \in FreshRecords :
          /\ MinuteOf(store[i].ts) % 3 = 0
          /\ SecondOf(store[i].ts) = SecondOf(store[i].at)
    /\ \A i, j \in FreshRecords :
          SameWindow(store[i].at, store[j].at)
            => store[i].ts \div 60 = store[j].ts \div 60

\* two non-stale calls of the same window, in different minutes, have
\* returned timestamps of the same minute that differ in their seconds
C8_Witness ==
    \E i, j \in FreshRecords :
        /\ SameWindow(store[i].at, store[j].at)
        /\ MinuteOf(store[i].at) # MinuteOf(store[j].at)
        /\ store[i].ts \div 60 = store[j].ts \div 60
        /\ store[i].ts # store[j].ts

\* ---- C9 ----
\* C9 as stated: the recorded last-updated timestamps are non-decreasing in
\* observation order.
C9_RecordedTimestampsMonotone ==
    \A i, j \in 1 .. Len(store) :
        (i < j /\ store[i].at <= store[j].at) => store[i].ts <= store[j].ts

\* C9 amended: the recorded last-updated timestamps, truncated to the minute,
\* are non-decreasing in observation order.
C9_RecordedMinutesMonotone ==
    \A i, j \in 1 .. Len(store) :
        (i < j /\ store[i].at <= store[j].at)
          => store[i].ts \div 60 <= store[j].ts \div 60

\* a later observation has recorded an earlier timestamp of the same minute
C9_Witness ==
    \E i, j \in 1 .. Len(store) :
        /\ i < j
        /\ store[i].at < store[j].at
        /\ store[j].ts < store[i].ts
        /\ store[i].ts \div 60 = store[j].ts \div 60

\* ---- C10 ----
\* C10: every timestamp of the non-stale branch is strictly earlier than the
\* current time of its call and at most 2 minutes earlier.
C10_WithinLastTwoMinutes ==
    \A i \in FreshRecords :
        /\ store[i].ts < store[i].at
        /\ store[i].at - store[i].ts <= 2 * 60
====
